---- MODULE Spec2Model ----
(***************************************************************************)
(* Model of the live price cache of app.py: the shared live_cache           *)
(* dictionary, the two background refresher threads, the /api/live and     *)
(* /api/livechart request handlers and the two server-sent-event streams.  *)
(*                                                                         *)
(* Prices are integers: a provider value is in thousandths of a unit, a    *)
(* value rounded to two decimals is in hundredths, a percentage rounded to *)
(* two decimals is in hundredths of a percent.  The wall clock is a count  *)
(* of seconds; a timestamp is the clock formatted as <<hour, min, sec>>.   *)
(***************************************************************************)
EXTENDS Integers, Sequences, FiniteSets, TLC

\* ------------------------------------------------------------------ bounds
MaxTicks == 3       \* seconds of wall-clock time a behaviour spans
MaxLiveRequests == 1    \* requests to /api/live per behaviour
MaxChartRequests == 2   \* requests to /api/livechart per behaviour

\* --------------------------------------------------------------- constants
None == "None"          \* Python's None, where a symbol is expected
Absent == [absent |-> TRUE]  \* Python's None, where a record is expected
NoPoll == <<-1>>        \* no timestamp read yet
NoTs == <<>>            \* the empty string "" used as "no timestamp yet"
Free == "free"          \* the lock is not held

\* live_cache["ticker_symbols"]; the model keeps the first two of the eight
Watchlist == <<"AAPL", "TSLA">>

TickerSleep == 2
ChartSleep == 3
StreamSleep == 1

\* The wall clock at process start: two seconds before midnight, so that a
\* behaviour has timestamps on both sides of the "%H:%M:%S" wrap.
StartTimes == {86398}

\* ----------------------------------------------------------------- helpers
\* round(x, 2) of a value given in thousandths: hundredths, half to even
Round2(m) ==
    LET q == m \div 10
        r == m % 10
    IN  IF r > 5 \/ (r = 5 /\ q % 2 = 1) THEN q + 1 ELSE q

\* n / d rounded to the nearest integer, half to even (d > 0)
RoundDiv(n, d) ==
    LET q == n \div d
        r == n % d
    IN  IF 2 * r > d \/ (2 * r = d /\ q % 2 = 1) THEN q + 1 ELSE q

\* round((chg / base) * 100, 2) for chg and base in hundredths
Pct(chg, base) == RoundDiv(chg * 10000, base)

\* datetime.now().strftime("%H:%M:%S")
StrfTime(t) == <<(t \div 3600) % 24, (t \div 60) % 60, t % 60>>

\* datetime.now().strftime("%b %d, %Y"): the day the clock is in
StrfDate(t) == t \div 86400

\* order of two "%H:%M:%S" strings ("" sorts first)
TsLeq(a, b) ==
    \/ a = NoTs
    \/ /\ b # NoTs
       /\ a[1] * 3600 + a[2] * 60 + a[3] <= b[1] * 3600 + b[2] * 60 + b[3]

\* An outcome of a provider call: an exception, or a frame of rows
Raise == [err |-> TRUE, rows |-> <<>>]
Frame(rows) == [err |-> FALSE, rows |-> rows]

\* What t.history(period="2d") can give for a watchlist symbol: an error, or
\* the closing prices of zero, one or two days.
DailyOutcomes == {Raise, Frame(<<>>), Frame(<<10125>>), Frame(<<10000, 10255>>)}

\* mutant: the percentage is taken of the current price
MakeQuote_PctOfCurrent(sym, h) ==
    IF Len(h) >= 2
    THEN LET cur  == Round2(h[Len(h)])
             prev == Round2(h[Len(h) - 1])
             chg  == cur - prev
         IN  [symbol |-> sym, price |-> cur, change |-> chg,
              changePct |-> Pct(chg, cur)]
    ELSE [symbol |-> sym, price |-> Round2(h[Len(h)]), change |-> 0,
          changePct |-> 0]

\* lines 39-50: the quote built from a history of closes (at least one)
MakeQuote(sym, h) ==
    IF Len(h) >= 2
    THEN LET cur  == Round2(h[Len(h)])
             prev == Round2(h[Len(h) - 1])
             chg  == cur - prev
         IN  [symbol |-> sym, price |-> cur, change |-> chg,
              changePct |-> Pct(chg, prev)]
    ELSE [symbol |-> sym, price |-> Round2(h[Len(h)]), change |-> 0,
          changePct |-> 0]

SymbolsOf(quotes) == [k \in 1..Len(quotes) |-> quotes[k].symbol]

\* The symbols a chart can be asked for, and the raw request strings that
\* name them; symbol.upper().strip() of each raw string.
ChartSymbols == {"TSLA", "MSFT"}
RawSymbols == {"", "tsla", " MSFT "}
StreamRawSymbols == {"tsla", " MSFT "}

\* lines 328, 420: symbol.upper().strip()
UpperStrip(raw) ==
    CASE raw = "tsla" -> "TSLA"
      [] raw = " MSFT " -> "MSFT"
      [] OTHER -> ""

\* What t.history(period="1d", interval="1m") and the fallback
\* t.history(period="5d", interval="5m") can give: an error, an empty frame,
\* or a frame of bars.
Bars1m == << [t |-> "09:30", open |-> 20004, high |-> 20506, low |-> 19995, close |-> 20255],
             [t |-> "09:31", open |-> 20255, high |-> 20815, low |-> 20100, close |-> 20125] >>
Bars5m == << [t |-> "15:55", open |-> 19800, high |-> 19900, low |-> 19700, close |-> 19745] >>
Intraday1m == {Raise, Frame(<<>>), Frame(Bars1m)}
Intraday5m == {Raise, Frame(<<>>), Frame(Bars5m)}

MaxOf(S) == CHOOSE x \in S : \A y \in S : y <= x
MinOf(S) == CHOOSE x \in S : \A y \in S : x <= y

\* lines 73-90 and 348-363: the chart entry built from a non-empty frame h,
\* the date string today and the time string ts
MakeEntry(h, today, ts) ==
    LET cur == Round2(h[Len(h)].close)
        opn == Round2(h[1].open)
        chg == cur - opn
    IN  [prices |-> [k \in 1..Len(h) |-> h[k].close],
         times |-> [k \in 1..Len(h) |-> h[k].t],
         price |-> cur, open |-> opn,
         change |-> chg, changePct |-> Pct(chg, opn),
         high |-> Round2(MaxOf({h[k].high : k \in 1..Len(h)})),
         low |-> Round2(MinOf({h[k].low : k \in 1..Len(h)})),
         date |-> today,
         timestamp |-> ts]

\* lines 390-396: the body of a successful /api/livechart response
ChartResponse(cached) ==
    [status |-> 200,
     chart |-> [x |-> cached.times, y |-> cached.prices],
     price |-> cached.price, open |-> cached.open,
     change |-> cached.change, changePct |-> cached.changePct,
     high |-> cached.high, low |-> cached.low,
     timestamp |-> cached.timestamp]

\* lines 430-438: the payload of a chart stream event
ChartPayload(cached) ==
    [times |-> cached.times, prices |-> cached.prices,
     price |-> cached.price, open |-> cached.open,
     change |-> cached.change, changePct |-> cached.changePct,
     high |-> cached.high, low |-> cached.low,
     date |-> cached.date, timestamp |-> cached.timestamp]

VARIABLES
    ticker,         \* live_cache["ticker"]
    timestamp,      \* live_cache["timestamp"]
    charts,         \* live_cache["charts"]
    chart_symbol,   \* live_cache["chart_symbol"]
    lock,           \* live_cache["lock"]: Free or the task holding it
    now,            \* the wall clock, in seconds
    tr,             \* the _bg_update_ticker thread
    st,             \* the /stream/ticker connection
    lh,             \* the /api/live request handler
    cr,             \* the _bg_update_chart thread
    hc,             \* the /api/livechart request handler
    sc,             \* the /stream/chart/<symbol> connection
    sg,             \* the /api/strategy request handler
    sd,             \* the /api/stock request handler
    ticks,          \* seconds elapsed since the start
    requests,       \* requests to /api/live so far
    chartRequests,  \* requests to /api/livechart so far
    tickerCommits,  \* history: the (quotes, timestamp) pairs committed
    chartCommits,   \* history: the (symbol, entry) pairs committed
    focusLog        \* history: the symbols registered as focus, in order

vars == <<ticker, timestamp, charts, chart_symbol, lock, now, tr, st, lh,
          cr, hc, sc, sg, sd, ticks, requests, chartRequests, tickerCommits,
          chartCommits, focusLog>>

\* the variables of the chart side and of the ticker side
chartVars == <<charts, chart_symbol, cr, hc, sc, chartCommits, focusLog,
              chartRequests>>
tickerVars == <<ticker, timestamp, tr, st, lh, tickerCommits>>
\* the variables of the analysis requests, which do not touch the cache
analysisVars == <<sg, sd>>

Dec(t) == IF t > 0 THEN t - 1 ELSE 0

\* ------------------------------------------------- _bg_update_ticker thread
\* mutant: a new quote is put at the front of the results
TickerLoopBody_Prepend(results, sym, o) ==
    IF o.err \/ Len(o.rows) = 0
    THEN results
    ELSE <<MakeQuote(sym, o.rows)>> \o results

\* lines 36-52, one pass of the for loop: the results after symbol sym gave
\* outcome o
TickerLoopBody(results, sym, o) ==
    IF o.err \/ Len(o.rows) = 0
    THEN results
    ELSE Append(results, MakeQuote(sym, o.rows))

\* mutant: an exception in one symbol's fetch ends the whole cycle
TickerLoopNext_Abort(i, o) ==
    IF o.err THEN "sleep"
    ELSE IF i = Len(Watchlist) THEN "lock" ELSE "fetch"

\* lines 35, 49, 52: where the loop goes after outcome o for symbol number i
TickerLoopNext(i, o) ==
    IF i = Len(Watchlist) THEN "lock" ELSE "fetch"

\* lines 35-52: fetch the next watchlist symbol and handle the outcome
TRFetch ==
    /\ tr.pc = "fetch"
    /\ \E o \in DailyOutcomes :
         LET sym == Watchlist[tr.i]
         IN  tr' = [tr EXCEPT
                      !.pc = TickerLoopNext(tr.i, o),
                      !.i = tr.i + 1,
                      !.results = TickerLoopBody(tr.results, sym, o),
                      !.fetched = tr.fetched \cup {sym},
                      !.closes = Append(tr.closes, o.rows),
                      !.ok = IF ~o.err /\ Len(o.rows) >= 1
                             THEN tr.ok \cup {sym} ELSE tr.ok]
    /\ UNCHANGED <<chartVars, analysisVars, ticker, timestamp, lock, now, st, lh, ticks, requests, tickerCommits>>

\* mutant: the writer goes on without taking the lock
TRLock_NoLock ==
    /\ tr.pc = "lock"
    /\ tr' = [tr EXCEPT !.pc = "write_ticker"]
    /\ UNCHANGED <<chartVars, analysisVars, ticker, timestamp, lock, now, st, lh, ticks, requests, tickerCommits>>

\* line 54: with live_cache["lock"]
TRLock ==
    /\ tr.pc = "lock"
    /\ lock = Free
    /\ lock' = "tr"
    /\ tr' = [tr EXCEPT !.pc = "write_ticker"]
    /\ UNCHANGED <<chartVars, analysisVars, ticker, timestamp, now, st, lh, ticks, requests, tickerCommits>>

\* line 55: live_cache["ticker"] = results
TRWriteTicker ==
    /\ tr.pc = "write_ticker"
    /\ ticker' = tr.results
    /\ tr' = [tr EXCEPT !.pc = "write_ts"]
    /\ UNCHANGED <<chartVars, analysisVars, timestamp, lock, now, st, lh, ticks, requests, tickerCommits>>

\* lines 56, 59: live_cache["timestamp"] = now; leave the with block; sleep
TRWriteTs ==
    /\ tr.pc = "write_ts"
    /\ timestamp' = StrfTime(now)
    /\ lock' = Free
    /\ tr' = [tr EXCEPT !.pc = "sleep", !.timer = TickerSleep]
    /\ tickerCommits' = tickerCommits \cup {<<ticker, StrfTime(now)>>}
    /\ UNCHANGED <<chartVars, analysisVars, ticker, now, st, lh, ticks, requests>>

\* mutant: a cycle in which a provider call failed ends the thread
TRWake_OnlyAfterSuccess ==
    /\ tr.pc = "sleep"
    /\ tr.timer = 0
    /\ tr.ok = {Watchlist[k] : k \in 1..Len(Watchlist)}
    /\ tr' = [tr EXCEPT !.pc = "fetch", !.i = 1, !.results = <<>>,
                        !.fetched = {}, !.ok = {}, !.closes = <<>>]
    /\ UNCHANGED <<chartVars, analysisVars, ticker, timestamp, lock, now, st, lh, ticks, requests, tickerCommits>>

\* lines 59, 32-34: time.sleep(2) is over; results = []
TRWake ==
    /\ tr.pc = "sleep"
    /\ tr.timer = 0
    /\ tr' = [tr EXCEPT !.pc = "fetch", !.i = 1, !.results = <<>>,
                        !.fetched = {}, !.ok = {}, !.closes = <<>>]
    /\ UNCHANGED <<chartVars, analysisVars, ticker, timestamp, lock, now, st, lh, ticks, requests, tickerCommits>>

\* ------------------------------------------------------ /stream/ticker
\* lines 399-403: a client opens the stream; last_ts = ""
STOpen ==
    /\ st.pc = "closed"
    /\ st' = [st EXCEPT !.pc = "lock", !.last_ts = NoTs]
    /\ UNCHANGED <<chartVars, analysisVars, ticker, timestamp, lock, now, tr, lh, ticks, requests, tickerCommits>>

\* line 405
STLock ==
    /\ st.pc = "lock"
    /\ lock = Free
    /\ lock' = "st"
    /\ st' = [st EXCEPT !.pc = "read"]
    /\ UNCHANGED <<chartVars, analysisVars, ticker, timestamp, now, tr, lh, ticks, requests, tickerCommits>>

\* lines 406-407: read both fields, leave the with block
STRead ==
    /\ st.pc = "read"
    /\ st' = [st EXCEPT !.pc = "check", !.ts = timestamp, !.data = ticker,
                        !.prev_ts = st.ts]
    /\ lock' = Free
    /\ UNCHANGED <<chartVars, analysisVars, ticker, timestamp, now, tr, lh, ticks, requests, tickerCommits>>

\* mutant: the poll does not look at whether the list is empty
TickerShouldPush_AnyData(ts, last_ts, data) == ts # last_ts

\* line 408: the condition under which the poll yields an event
TickerShouldPush(ts, last_ts, data) == ts # last_ts /\ data # <<>>

\* lines 408-412: yield an event if the timestamp changed, then sleep
STCheck ==
    /\ st.pc = "check"
    /\ IF TickerShouldPush(st.ts, st.last_ts, st.data)
       THEN st' = [st EXCEPT !.pc = "sleep", !.timer = StreamSleep,
                             !.data = <<>>,
                             !.last_ts = st.ts,
                             !.event = [stocks |-> st.data, timestamp |-> st.ts],
                             !.nEvents = st.nEvents + 1]
       ELSE st' = [st EXCEPT !.pc = "sleep", !.timer = StreamSleep,
                             !.data = <<>>]
    /\ UNCHANGED <<chartVars, analysisVars, ticker, timestamp, lock, now, tr, lh, ticks, requests, tickerCommits>>

\* line 412: time.sleep(1) is over
STWake ==
    /\ st.pc = "sleep"
    /\ st.timer = 0
    /\ st' = [st EXCEPT !.pc = "lock"]
    /\ UNCHANGED <<chartVars, analysisVars, ticker, timestamp, lock, now, tr, lh, ticks, requests, tickerCommits>>

\* ------------------------------------------------------------- /api/live
\* line 318: a request arrives
LHRequest ==
    /\ lh.pc = "idle"
    /\ requests < MaxLiveRequests
    /\ requests' = requests + 1
    /\ lh' = [lh EXCEPT !.pc = "lock", !.resp = Absent]
    /\ UNCHANGED <<chartVars, analysisVars, ticker, timestamp, lock, now, tr, st, ticks, tickerCommits>>

\* line 320
LHLock ==
    /\ lh.pc = "lock"
    /\ lock = Free
    /\ lock' = "lh"
    /\ lh' = [lh EXCEPT !.pc = "read"]
    /\ UNCHANGED <<chartVars, analysisVars, ticker, timestamp, now, tr, st, ticks, requests, tickerCommits>>

\* mutant: the handler returns without releasing the lock
LHRespond_KeepsLock ==
    /\ lh.pc = "read"
    /\ lh' = [lh EXCEPT !.pc = "idle",
                        !.resp = [stocks |-> ticker, timestamp |-> timestamp]]
    /\ lock' = lock
    /\ UNCHANGED <<chartVars, analysisVars, ticker, timestamp, now, tr, st, ticks, requests, tickerCommits>>

\* line 321: build the response inside the with block and return it
LHRespond ==
    /\ lh.pc = "read"
    /\ lh' = [lh EXCEPT !.pc = "idle",
                        !.resp = [stocks |-> ticker, timestamp |-> timestamp]]
    /\ lock' = Free
    /\ UNCHANGED <<chartVars, analysisVars, ticker, timestamp, now, tr, st, ticks, requests, tickerCommits>>

\* -------------------------------------------------- _bg_update_chart thread
\* mutant: once a symbol is tracked the thread keeps tracking it
CycleSymbol_Sticky(focus, previous) ==
    IF previous \in ChartSymbols THEN previous ELSE focus

\* line 65: the symbol a cycle works on, given the focus register
CycleSymbol(focus, previous) == focus

\* lines 64-66: a cycle starts (at thread start or when time.sleep(3) is
\* over) by reading the focus; without a focus it goes back to sleep
CRStart ==
    /\ cr.pc = "start" \/ (cr.pc = "sleep" /\ cr.timer = 0)
    /\ LET sym == CycleSymbol(chart_symbol, cr.sym)
       IN  cr' = [cr EXCEPT
                    !.sym = sym,
                    !.seen = Len(focusLog),
                    !.h = <<>>,
                    !.first = Absent,
                    !.pc = IF sym # None /\ sym # "" THEN "fetch1" ELSE "sleep",
                    !.timer = IF sym # None /\ sym # "" THEN 0 ELSE ChartSleep]
    /\ UNCHANGED <<tickerVars, analysisVars, charts, chart_symbol, hc, sc, chartCommits,
                   focusLog, lock, now, ticks, requests,
                   chartRequests>>

\* mutant: a cycle that got no data drops the symbol's entry
ChartsAfterFailedCycle_Drop(table, sym) == [table EXCEPT ![sym] = Absent]

\* lines 91-93: what a cycle that got no data does to the chart table
ChartsAfterFailedCycle(table, sym) == table

\* lines 68-72, 79: the 1-day/1-minute request and its outcome
CRFetch1 ==
    /\ cr.pc = "fetch1"
    /\ \E o \in Intraday1m :
         /\ cr' = [cr EXCEPT
                     !.first = o,
                     !.h = o.rows,
                     !.today = IF o.err \/ o.rows = <<>> THEN 0 ELSE StrfDate(now),
                     !.pc = CASE o.err -> "sleep"
                              [] o.rows = <<>> -> "fetch2"
                              [] OTHER -> "lock",
                     !.timer = IF o.err THEN ChartSleep ELSE 0]
         /\ charts' = IF o.err
                      THEN ChartsAfterFailedCycle(charts, cr.sym) ELSE charts
    /\ UNCHANGED <<tickerVars, analysisVars, chart_symbol, hc, sc, chartCommits, focusLog,
                   lock, now, ticks, requests,
                   chartRequests>>

\* lines 70-72, 79: the fallback 5-day/5-minute request and its outcome
CRFetch2 ==
    /\ cr.pc = "fetch2"
    /\ \E o \in Intraday5m :
         /\ cr' = [cr EXCEPT
                     !.h = o.rows,
                     !.today = IF o.err \/ o.rows = <<>> THEN 0 ELSE StrfDate(now),
                     !.pc = IF o.err \/ o.rows = <<>> THEN "sleep" ELSE "lock",
                     !.timer = IF o.err \/ o.rows = <<>> THEN ChartSleep ELSE 0]
         /\ charts' = IF o.err \/ o.rows = <<>>
                      THEN ChartsAfterFailedCycle(charts, cr.sym) ELSE charts
    /\ UNCHANGED <<tickerVars, analysisVars, chart_symbol, hc, sc, chartCommits, focusLog,
                   lock, now, ticks, requests,
                   chartRequests>>

\* line 81
CRLock ==
    /\ cr.pc = "lock"
    /\ lock = Free
    /\ lock' = "cr"
    /\ cr' = [cr EXCEPT !.pc = "write"]
    /\ UNCHANGED <<tickerVars, analysisVars, charts, chart_symbol, hc, sc, chartCommits,
                   focusLog, now, ticks, requests,
                   chartRequests>>

\* lines 82-90, 93: store the entry, stamped inside the with block; sleep
CRWrite ==
    /\ cr.pc = "write"
    /\ LET e == MakeEntry(cr.h, cr.today, StrfTime(now))
       IN  /\ charts' = [charts EXCEPT ![cr.sym] = e]
           /\ chartCommits' = chartCommits \cup {<<cr.sym, e>>}
    /\ lock' = Free
    /\ cr' = [cr EXCEPT !.pc = "sleep", !.timer = ChartSleep]
    /\ UNCHANGED <<tickerVars, analysisVars, chart_symbol, hc, sc, focusLog, now, ticks,
                   requests,
                   chartRequests>>

\* ---------------------------------------------------------- /api/livechart
\* mutant: a request moves the focus only while no focus is set
HCRequest_FirstFocusStays ==
    /\ hc.pc = "idle"
    /\ chartRequests < MaxChartRequests
    /\ chartRequests' = chartRequests + 1
    /\ \E raw \in RawSymbols :
         LET symbol == UpperStrip(raw)
         IN  IF symbol = ""
             THEN /\ hc' = [hc EXCEPT !.resp = [status |-> 400]]
                  /\ UNCHANGED <<chart_symbol, focusLog>>
             ELSE /\ hc' = [hc EXCEPT !.pc = "lock1", !.symbol = symbol,
                                      !.cached = Absent, !.resp = Absent]
                  /\ chart_symbol' = IF chart_symbol = None THEN symbol
                                     ELSE chart_symbol
                  /\ focusLog' = Append(focusLog, symbol)
    /\ UNCHANGED <<tickerVars, analysisVars, charts, cr, sc, chartCommits, lock, now, ticks,
                   requests>>

\* lines 327-333: a request arrives; an empty symbol is refused, any other
\* becomes the focus
HCRequest ==
    /\ hc.pc = "idle"
    /\ chartRequests < MaxChartRequests
    /\ chartRequests' = chartRequests + 1
    /\ \E raw \in RawSymbols :
         LET symbol == UpperStrip(raw)
         IN  IF symbol = ""
             THEN /\ hc' = [hc EXCEPT !.resp = [status |-> 400]]
                  /\ UNCHANGED <<chart_symbol, focusLog>>
             ELSE /\ hc' = [hc EXCEPT !.pc = "lock1", !.symbol = symbol,
                                      !.cached = Absent, !.resp = Absent]
                  /\ chart_symbol' = symbol
                  /\ focusLog' = Append(focusLog, symbol)
    /\ UNCHANGED <<tickerVars, analysisVars, charts, cr, sc, chartCommits, lock, now, ticks,
                   requests>>

\* line 335
HCLock1 ==
    /\ hc.pc = "lock1"
    /\ lock = Free
    /\ lock' = "hc"
    /\ hc' = [hc EXCEPT !.pc = "read"]
    /\ UNCHANGED <<tickerVars, analysisVars, charts, chart_symbol, cr, sc, chartCommits,
                   focusLog, now, ticks, requests,
                   chartRequests>>

\* mutant: the handler fetches on every request
MustBootstrap_Always(cached) == TRUE

\* line 338: whether the handler must fetch the symbol itself
MustBootstrap(cached) == cached = Absent

\* mutant: the handler keeps the lock after the read, through its fetch
HCRead_HoldsLock ==
    /\ hc.pc = "read"
    /\ LET cached == charts[hc.symbol]
       IN  IF MustBootstrap(cached)
           THEN hc' = [hc EXCEPT !.pc = "fetch1", !.cached = cached]
           ELSE hc' = [hc EXCEPT !.pc = "idle",
                                 !.resp = ChartResponse(cached)]
    /\ UNCHANGED <<tickerVars, analysisVars, charts, chart_symbol, cr, sc, chartCommits,
                   focusLog, lock, now, ticks, requests,
                   chartRequests>>

\* lines 336-338, 370-396: read the entry and leave the with block; a cached
\* entry is answered at once
HCRead ==
    /\ hc.pc = "read"
    /\ lock' = Free
    /\ LET cached == charts[hc.symbol]
       IN  IF MustBootstrap(cached)
           THEN hc' = [hc EXCEPT !.pc = "fetch1", !.cached = cached]
           ELSE hc' = [hc EXCEPT !.pc = "idle",
                                 !.resp = ChartResponse(cached)]
    /\ UNCHANGED <<tickerVars, analysisVars, charts, chart_symbol, cr, sc, chartCommits,
                   focusLog, now, ticks, requests,
                   chartRequests>>

\* lines 341-343, 348-363, 366-367: the 1-day/1-minute request; the entry is
\* built, and stamped, before the lock is taken
HCFetch1 ==
    /\ hc.pc = "fetch1"
    /\ \E o \in Intraday1m :
         hc' = CASE o.err -> [hc EXCEPT !.pc = "idle", !.resp = [status |-> 500]]
                 [] o.rows = <<>> -> [hc EXCEPT !.pc = "fetch2"]
                 [] OTHER -> [hc EXCEPT !.pc = "lock2",
                                !.cached = MakeEntry(o.rows, StrfDate(now), StrfTime(now))]
    /\ UNCHANGED <<tickerVars, analysisVars, charts, chart_symbol, cr, sc, chartCommits,
                   focusLog, lock, now, ticks, requests,
                   chartRequests>>

\* mutant: a symbol without data is cached as an empty entry
HCFetch2_CachesNoData ==
    /\ hc.pc = "fetch2"
    /\ \E o \in Intraday5m :
         /\ hc' = CASE o.err -> [hc EXCEPT !.pc = "idle", !.resp = [status |-> 500]]
                    [] o.rows = <<>> -> [hc EXCEPT !.pc = "idle", !.resp = [status |-> 404]]
                    [] OTHER -> [hc EXCEPT !.pc = "lock2",
                                   !.cached = MakeEntry(o.rows, StrfDate(now), StrfTime(now))]
         /\ charts' = IF ~o.err /\ o.rows = <<>>
                      THEN [charts EXCEPT ![hc.symbol] =
                              [prices |-> <<>>, times |-> <<>>, price |-> 0,
                               open |-> 0, change |-> 0, changePct |-> 0,
                               high |-> 0, low |-> 0, date |-> StrfDate(now),
                               timestamp |-> StrfTime(now)]]
                      ELSE charts
    /\ UNCHANGED <<tickerVars, analysisVars, chart_symbol, cr, sc, chartCommits,
                   focusLog, lock, now, ticks, requests,
                   chartRequests>>

\* lines 344-363, 366-367: the fallback request
HCFetch2 ==
    /\ hc.pc = "fetch2"
    /\ \E o \in Intraday5m :
         hc' = CASE o.err -> [hc EXCEPT !.pc = "idle", !.resp = [status |-> 500]]
                 [] o.rows = <<>> -> [hc EXCEPT !.pc = "idle", !.resp = [status |-> 404]]
                 [] OTHER -> [hc EXCEPT !.pc = "lock2",
                                !.cached = MakeEntry(o.rows, StrfDate(now), StrfTime(now))]
    /\ UNCHANGED <<tickerVars, analysisVars, charts, chart_symbol, cr, sc, chartCommits,
                   focusLog, lock, now, ticks, requests,
                   chartRequests>>

\* line 364
HCLock2 ==
    /\ hc.pc = "lock2"
    /\ lock = Free
    /\ lock' = "hc"
    /\ hc' = [hc EXCEPT !.pc = "write"]
    /\ UNCHANGED <<tickerVars, analysisVars, charts, chart_symbol, cr, sc, chartCommits,
                   focusLog, now, ticks, requests,
                   chartRequests>>

\* lines 365, 370-396: store the entry, leave the with block and answer
HCWrite ==
    /\ hc.pc = "write"
    /\ charts' = [charts EXCEPT ![hc.symbol] = hc.cached]
    /\ chartCommits' = chartCommits \cup {<<hc.symbol, hc.cached>>}
    /\ lock' = Free
    /\ hc' = [hc EXCEPT !.pc = "idle", !.cached = Absent,
                        !.resp = ChartResponse(hc.cached)]
    /\ UNCHANGED <<tickerVars, analysisVars, chart_symbol, cr, sc, focusLog, now, ticks,
                   requests,
                   chartRequests>>

\* ------------------------------------------------- /stream/chart/<symbol>
\* lines 418-424: a client opens the stream: the symbol becomes the focus
SCOpen ==
    /\ sc.pc = "closed"
    /\ \E raw \in StreamRawSymbols :
         LET symbol == UpperStrip(raw)
         IN  /\ sc' = [sc EXCEPT !.pc = "lock", !.symbol = symbol,
                                 !.last_ts = NoTs]
             /\ chart_symbol' = symbol
             /\ focusLog' = Append(focusLog, symbol)
    /\ UNCHANGED <<tickerVars, analysisVars, charts, cr, hc, chartCommits, lock, now, ticks,
                   requests,
                   chartRequests>>

\* line 426
SCLock ==
    /\ sc.pc = "lock"
    /\ lock = Free
    /\ lock' = "sc"
    /\ sc' = [sc EXCEPT !.pc = "read"]
    /\ UNCHANGED <<tickerVars, analysisVars, charts, chart_symbol, cr, hc, chartCommits,
                   focusLog, now, ticks, requests,
                   chartRequests>>

\* line 427: read the entry, leave the with block
SCRead ==
    /\ sc.pc = "read"
    /\ lock' = Free
    /\ sc' = [sc EXCEPT !.pc = "check", !.cached = charts[sc.symbol],
                        !.prev_ts = sc.ts,
                        !.ts = IF charts[sc.symbol] = Absent THEN NoPoll
                               ELSE charts[sc.symbol].timestamp]
    /\ UNCHANGED <<tickerVars, analysisVars, charts, chart_symbol, cr, hc, chartCommits,
                   focusLog, now, ticks, requests,
                   chartRequests>>

\* line 428: the condition under which the poll yields an event
ChartShouldPush(cached, last_ts) ==
    cached # Absent /\ cached.timestamp # last_ts

\* lines 428-440: yield an event if the entry's timestamp changed, then sleep
SCCheck ==
    /\ sc.pc = "check"
    /\ IF ChartShouldPush(sc.cached, sc.last_ts)
       THEN sc' = [sc EXCEPT !.pc = "sleep", !.timer = StreamSleep,
                             !.cached = Absent,
                             !.last_ts = sc.cached.timestamp,
                             !.event = ChartPayload(sc.cached),
                             !.nEvents = sc.nEvents + 1]
       ELSE sc' = [sc EXCEPT !.pc = "sleep", !.timer = StreamSleep,
                             !.cached = Absent]
    /\ UNCHANGED <<tickerVars, analysisVars, charts, chart_symbol, cr, hc, chartCommits,
                   focusLog, lock, now, ticks, requests,
                   chartRequests>>

\* line 440: time.sleep(1) is over
SCWake ==
    /\ sc.pc = "sleep"
    /\ sc.timer = 0
    /\ sc' = [sc EXCEPT !.pc = "lock"]
    /\ UNCHANGED <<tickerVars, analysisVars, charts, chart_symbol, cr, hc, chartCommits,
                   focusLog, lock, now, ticks, requests,
                   chartRequests>>

\* ------------------------------------------------------ analysis requests
\* The frame ticker.history gives an analysis request is kept as its number
\* of rows and, for /api/strategy, the last values of the series pandas
\* computes from it: RSI in hundredths, MACD and its signal line in
\* ten-thousandths, the price and the Bollinger bands in hundredths, the 50-
\* and 200-row means in thousandths.
RsiOversold == 3000         \* lines 474, 533: current_rsi < 30
RsiOverbought == 7000       \* lines 472, 534: current_rsi > 70
MinStrategyRows == 30       \* line 458: len(hist) < 30
Ma200Window == 200          \* line 519: len(close) >= 200
RsiWindow == 14             \* line 182: len(hist) >= 14
MacdWindow == 26            \* line 190: len(hist) >= 26
BollingerWindow == 20       \* line 198: len(hist) >= 20

NoSeries == [err |-> TRUE, n |-> 0, ind |-> Absent]
Series(n, ind) == [err |-> FALSE, n |-> n, ind |-> ind]

\* the values of the indicators on a frame of n rows
RsiValues == {2999, 3000, 7000, 7001}
MacdValues == {[macd |-> 5, signal |-> 3], [macd |-> 3, signal |-> 3],
               [macd |-> 3, signal |-> 5]}
BandValues == {[price |-> 10000, lower |-> 10000, upper |-> 12000],
               [price |-> 11000, lower |-> 10000, upper |-> 12000],
               [price |-> 12000, lower |-> 10000, upper |-> 12000],
               [price |-> 10000, lower |-> 10000, upper |-> 10000]}
MaValues(n) ==
    IF n >= Ma200Window
    THEN {[ma50 |-> 105000, ma200 |-> 100000],
          [ma50 |-> 100000, ma200 |-> 100000],
          [ma50 |-> 95000, ma200 |-> 100000]}
    ELSE {Absent}
Indicators(n) ==
    [rsi : RsiValues, mc : MacdValues, bb : BandValues, ma : MaValues(n)]

\* What ticker.history(period="1y") can give /api/strategy, and
\* ticker.history(period=period) can give /api/stock
ShortLengths == {0, 1, 13, 14, 19, 20, 25, 26, 29}
LongLengths == {30, 199, 200}
StrategyOutcomes ==
    {NoSeries} \cup {Series(n, Absent) : n \in ShortLengths}
      \cup UNION {{Series(n, i) : i \in Indicators(n)} : n \in LongLengths}
StockOutcomes ==
    {NoSeries} \cup {Series(n, Absent) : n \in ShortLengths \cup LongLengths}

\* lines 533-534: the vote of the RSI
RsiVote(rsi) ==
    IF rsi < RsiOversold THEN "buy"
    ELSE IF rsi > RsiOverbought THEN "sell" ELSE "none"

\* lines 536-537: the vote of the MACD
MacdVote(mc) == IF mc.macd > mc.signal THEN "buy" ELSE "sell"

\* lines 539-540: the vote of the Bollinger bands
BollingerVote(bb) ==
    IF bb.price <= bb.lower THEN "buy"
    ELSE IF bb.price >= bb.upper THEN "sell" ELSE "none"

\* lines 518-519, 542-544: the vote of the MA50/MA200 crossover; there is no
\* MA200 on fewer than 200 rows
MaCrossVote(n, ma) ==
    IF n >= Ma200Window /\ ma # Absent
    THEN IF ma.ma50 > ma.ma200 THEN "buy" ELSE "sell"
    ELSE "none"

\* lines 530-544: the four votes and their counts
Votes(n, ind) ==
    <<RsiVote(ind.rsi), MacdVote(ind.mc), BollingerVote(ind.bb),
      MaCrossVote(n, ind.ma)>>
CountVotes(votes, v) == Cardinality({k \in DOMAIN votes : votes[k] = v})

\* mutant: a tie is reported as BUY
Overall_TieBuys(buy, sell) ==
    IF buy >= sell THEN [verdict |-> "BUY", count |-> buy, of |-> buy + sell]
    ELSE [verdict |-> "SELL", count |-> sell, of |-> buy + sell]

\* lines 546-551: the overall recommendation
Overall(buy, sell) ==
    IF buy > sell THEN [verdict |-> "BUY", count |-> buy, of |-> buy + sell]
    ELSE IF sell > buy
         THEN [verdict |-> "SELL", count |-> sell, of |-> buy + sell]
         ELSE [verdict |-> "HOLD", count |-> 0, of |-> 0]

\* lines 521-527: the text of the crossover line
MaCrossSignal(n, ma) ==
    CASE MaCrossVote(n, ma) = "buy" -> "golden cross"
      [] MaCrossVote(n, ma) = "sell" -> "death cross"
      [] OTHER -> "not enough data"

\* lines 448-452: a request to /api/strategy arrives
SGRequest ==
    /\ sg.pc = "idle"
    /\ \E raw \in RawSymbols :
         LET symbol == UpperStrip(raw)
         IN  sg' = IF symbol = ""
                   THEN [sg EXCEPT !.symbol = symbol, !.hist = Absent,
                                   !.buy_signals = 0, !.sell_signals = 0,
                                   !.resp = [status |-> 400]]
                   ELSE [sg EXCEPT !.pc = "fetch", !.symbol = symbol,
                                   !.hist = Absent,
                                   !.buy_signals = 0, !.sell_signals = 0,
                                   !.resp = Absent]
    /\ UNCHANGED <<tickerVars, chartVars, sd, lock, now, ticks, requests>>

\* line 458: hist.empty or len(hist) < 30
TooShortForStrategy(hist) == hist.n = 0 \/ hist.n < MinStrategyRows

\* lines 454-588: the history request, the indicators, the votes, the answer
SGRespond ==
    /\ sg.pc = "fetch"
    /\ \E o \in StrategyOutcomes :
         sg' = CASE o.err ->
                      [sg EXCEPT !.pc = "idle", !.hist = o,
                                 !.resp = [status |-> 500]]
                 [] ~o.err /\ TooShortForStrategy(o) ->
                      [sg EXCEPT !.pc = "idle", !.hist = o,
                                 !.resp = [status |-> 404]]
                 [] OTHER ->
                      LET votes == Votes(o.n, o.ind)
                          buy == CountVotes(votes, "buy")
                          sell == CountVotes(votes, "sell")
                      IN  [sg EXCEPT
                             !.pc = "idle", !.hist = o,
                             !.buy_signals = buy, !.sell_signals = sell,
                             !.resp = [status |-> 200,
                                       price |-> o.ind.bb.price,
                                       maCrossover |-> MaCrossSignal(o.n, o.ind.ma),
                                       overall |-> Overall(buy, sell)]]
    /\ UNCHANGED <<tickerVars, chartVars, sd, lock, now, ticks, requests>>

\* lines 115-120: a request to /api/stock arrives
SDRequest ==
    /\ sd.pc = "idle"
    /\ \E raw \in RawSymbols :
         LET symbol == UpperStrip(raw)
         IN  sd' = IF symbol = ""
                   THEN [sd EXCEPT !.symbol = symbol, !.hist = Absent,
                                   !.resp = [status |-> 400]]
                   ELSE [sd EXCEPT !.pc = "fetch", !.symbol = symbol,
                                   !.hist = Absent, !.resp = Absent]
    /\ UNCHANGED <<tickerVars, chartVars, sg, lock, now, ticks, requests>>

\* lines 164-213: the charts of the answer to /api/stock on a frame of n rows
StockCharts(n) ==
    {"price", "roi", "volume", "ma"}
      \cup (IF n >= RsiWindow THEN {"rsi"} ELSE {})
      \cup (IF n >= MacdWindow THEN {"macd"} ELSE {})
      \cup (IF n >= BollingerWindow THEN {"bollinger"} ELSE {})

\* lines 122-217: the history request and the answer
SDRespond ==
    /\ sd.pc = "fetch"
    /\ \E o \in StockOutcomes :
         sd' = CASE o.err ->
                      [sd EXCEPT !.pc = "idle", !.hist = o,
                                 !.resp = [status |-> 500]]
                 [] ~o.err /\ o.n = 0 ->
                      [sd EXCEPT !.pc = "idle", !.hist = o,
                                 !.resp = [status |-> 404]]
                 [] OTHER ->
                      [sd EXCEPT !.pc = "idle", !.hist = o,
                                 !.resp = [status |-> 200,
                                           charts |-> StockCharts(o.n)]]
    /\ UNCHANGED <<tickerVars, chartVars, sg, lock, now, ticks, requests>>

\* ------------------------------------------------------------------ time
\* One second passes: every sleeping task's remaining sleep shrinks.
Tick ==
    /\ ticks < MaxTicks
    /\ ticks' = ticks + 1
    /\ now' = now + 1
    /\ tr' = [tr EXCEPT !.timer = Dec(tr.timer)]
    /\ st' = [st EXCEPT !.timer = Dec(st.timer)]
    /\ cr' = [cr EXCEPT !.timer = Dec(cr.timer)]
    /\ sc' = [sc EXCEPT !.timer = Dec(sc.timer)]
    /\ UNCHANGED <<ticker, timestamp, charts, chart_symbol, lock, lh, hc, requests,
                   chartRequests, tickerCommits, chartCommits, focusLog,
                   analysisVars>>

\* ------------------------------------------------------------------ system
Init ==
    /\ ticker = <<>>
    /\ timestamp = NoTs
    /\ charts = [s \in ChartSymbols |-> Absent]
    /\ chart_symbol = None
    /\ lock = Free
    /\ now \in StartTimes
    /\ tr = [pc |-> "fetch", i |-> 1, results |-> <<>>, fetched |-> {},
             ok |-> {}, closes |-> <<>>, timer |-> 0]
    /\ st = [pc |-> "closed", last_ts |-> NoTs, ts |-> NoPoll, data |-> <<>>,
             prev_ts |-> NoPoll, timer |-> 0, event |-> Absent, nEvents |-> 0]
    /\ lh = [pc |-> "idle", resp |-> Absent]
    /\ cr = [pc |-> "start", sym |-> None, seen |-> 0, h |-> <<>>,
             first |-> Absent, today |-> 0, timer |-> 0]
    /\ hc = [pc |-> "idle", symbol |-> None, cached |-> Absent, resp |-> Absent]
    /\ sc = [pc |-> "closed", symbol |-> None, last_ts |-> NoTs,
             cached |-> Absent, ts |-> NoPoll, prev_ts |-> NoPoll, timer |-> 0,
             event |-> Absent, nEvents |-> 0]
    /\ sg = [pc |-> "idle", symbol |-> None, hist |-> Absent,
             buy_signals |-> 0, sell_signals |-> 0, resp |-> Absent]
    /\ sd = [pc |-> "idle", symbol |-> None, hist |-> Absent, resp |-> Absent]
    /\ ticks = 0
    /\ requests = 0
    /\ chartRequests = 0
    /\ tickerCommits = {}
    /\ chartCommits = {}
    /\ focusLog = <<>>

TickerNext ==
    \/ TRFetch \/ TRLock \/ TRWriteTicker \/ TRWriteTs \/ TRWake
    \/ STOpen \/ STLock \/ STRead \/ STCheck \/ STWake
    \/ LHRequest \/ LHLock \/ LHRespond
    \/ Tick

ChartNext ==
    \/ CRStart \/ CRFetch1 \/ CRFetch2 \/ CRLock \/ CRWrite
    \/ HCRequest \/ HCLock1 \/ HCRead \/ HCFetch1 \/ HCFetch2 \/ HCLock2 \/ HCWrite
    \/ Tick

ChartStreamNext ==
    \/ CRStart \/ CRFetch1 \/ CRFetch2 \/ CRLock \/ CRWrite
    \/ SCOpen \/ SCLock \/ SCRead \/ SCCheck \/ SCWake
    \/ Tick

AnalysisNext == SGRequest \/ SGRespond \/ SDRequest \/ SDRespond

Next == TickerNext \/ ChartNext \/ ChartStreamNext \/ AnalysisNext

\* the whole program
Spec == Init /\ [][Next]_vars

\* the watchlist side alone: no client ever asks for a chart
SpecTicker == Init /\ [][TickerNext]_vars

\* the chart thread and the /api/livechart handler
SpecChart == Init /\ [][ChartNext]_vars

\* the chart thread and a /stream/chart connection
SpecChartStream == Init /\ [][ChartStreamNext]_vars

\* the chart thread, the /api/livechart handler and a /stream/chart connection
ChartAllNext ==
    \/ CRStart \/ CRFetch1 \/ CRFetch2 \/ CRLock \/ CRWrite
    \/ HCRequest \/ HCLock1 \/ HCRead \/ HCFetch1 \/ HCFetch2 \/ HCLock2 \/ HCWrite
    \/ SCOpen \/ SCLock \/ SCRead \/ SCCheck \/ SCWake
    \/ Tick
SpecChartAll == Init /\ [][ChartAllNext]_vars

\* the chart thread and the /api/livechart handler under a fair scheduler
SpecChartFair ==
    /\ SpecChart
    /\ WF_vars(CRStart) /\ WF_vars(CRFetch1) /\ WF_vars(CRFetch2)
    /\ WF_vars(CRLock) /\ WF_vars(CRWrite)
    /\ WF_vars(HCLock1) /\ WF_vars(HCRead) /\ WF_vars(HCFetch1)
    /\ WF_vars(HCFetch2) /\ WF_vars(HCLock2) /\ WF_vars(HCWrite)
    /\ WF_vars(Tick)

\* the analysis requests, which share no state with the cache
SpecAnalysis == Init /\ [][AnalysisNext]_vars

\* lines 38, 59: a second passes while the ticker thread waits for the
\* provider or sleeps
TickerWaits == tr.pc \in {"fetch", "sleep"} /\ Tick

\* the ticker thread alone, its own statements taking no time
TickerAloneNext ==
    \/ TRFetch \/ TRLock \/ TRWriteTicker \/ TRWriteTs \/ TRWake
    \/ TickerWaits
SpecTickerAlone == Init /\ [][TickerAloneNext]_vars

\* the ticker thread and an /api/live reader, every task taking its next step
\* when it can and the clock going on
TickerLiveNext ==
    \/ TRFetch \/ TRLock \/ TRWriteTicker \/ TRWriteTs \/ TRWake
    \/ LHRequest \/ LHLock \/ LHRespond
    \/ Tick
SpecTickerLive ==
    /\ Init /\ [][TickerLiveNext]_vars
    /\ WF_vars(TRFetch) /\ WF_vars(TRLock) /\ WF_vars(TRWriteTicker)
    /\ WF_vars(TRWriteTs) /\ WF_vars(TRWake)
    /\ WF_vars(LHLock) /\ WF_vars(LHRespond)
    /\ WF_vars(Tick)

\* the whole watchlist side in the same way: the ticker thread, a ticker
\* stream and an /api/live reader contend for the lock
SpecTickerFair ==
    /\ SpecTicker
    /\ WF_vars(TRFetch) /\ WF_vars(TRLock) /\ WF_vars(TRWriteTicker)
    /\ WF_vars(TRWriteTs) /\ WF_vars(TRWake)
    /\ WF_vars(STLock) /\ WF_vars(STRead) /\ WF_vars(STCheck) /\ WF_vars(STWake)
    /\ WF_vars(LHLock) /\ WF_vars(LHRespond)
    /\ WF_vars(Tick)

\* the chart thread and a chart stream, in the same way
SpecChartStreamLive ==
    /\ SpecChartStream
    /\ WF_vars(CRStart) /\ WF_vars(CRFetch1) /\ WF_vars(CRFetch2)
    /\ WF_vars(CRLock) /\ WF_vars(CRWrite)
    /\ WF_vars(SCLock) /\ WF_vars(SCRead) /\ WF_vars(SCCheck) /\ WF_vars(SCWake)
    /\ WF_vars(Tick)

\* ------------------------------------------------------------ properties
Range(f) == {f[k] : k \in DOMAIN f}
AllFetched == tr.fetched = Range(Watchlist)
WatchPos(sym) == CHOOSE i \in 1..Len(Watchlist) : Watchlist[i] = sym
InitialSnapshot == <<(<<>>), NoTs>>

\* C1: if every watchlist symbol fails in a TickerRefresher cycle, the steps
\* that end the cycle leave the cached quote list and its timestamp as they
\* were before the cycle.
C1_AllFailLeavesCache ==
    [][(tr' # tr /\ AllFetched /\ tr.ok = {})
         => (ticker' = ticker /\ timestamp' = timestamp)]_vars

\* C2: on every poll of a stream connection an event is pushed if and only
\* if the timestamp read differs from the timestamp of the last event pushed
\* on that connection and the value read is not empty; a poll that reads the
\* same timestamp as the poll before it pushes nothing; a pushed event is the
\* value read and never carries an empty quote list.
TickerPollPushed == st'.nEvents = st.nEvents + 1
TickerLastPushed == IF st.event = Absent THEN NoTs ELSE st.event.timestamp
TickerPollOK ==
    (st.pc = "check" /\ st'.pc # "check") =>
       /\ TickerPollPushed <=> (st.ts # TickerLastPushed /\ st.data # <<>>)
       /\ TickerPollPushed =>
            /\ st'.event = [stocks |-> st.data, timestamp |-> st.ts]
            /\ st'.event.stocks # <<>>
       /\ ~TickerPollPushed => (st'.nEvents = st.nEvents /\ st'.event = st.event)
       /\ st.prev_ts = st.ts => ~TickerPollPushed
ChartPollPushed == sc'.nEvents = sc.nEvents + 1
ChartLastPushed == IF sc.event = Absent THEN NoTs ELSE sc.event.timestamp
ChartPollOK ==
    (sc.pc = "check" /\ sc'.pc # "check") =>
       /\ ChartPollPushed <=> (sc.cached # Absent /\ sc.ts # ChartLastPushed)
       /\ ChartPollPushed => sc'.event = ChartPayload(sc.cached)
       /\ ~ChartPollPushed => (sc'.nEvents = sc.nEvents /\ sc'.event = sc.event)
       /\ sc.prev_ts = sc.ts => ~ChartPollPushed
C2_PushOnlyOnChange == [][TickerPollOK /\ ChartPollOK]_vars

\* C2 witness: the second poll read the timestamp the first poll had pushed,
\* and pushed nothing.
C2_Witness ==
    /\ st.pc = "sleep"
    /\ st.prev_ts = st.ts
    /\ st.ts # NoTs
    /\ st.nEvents = 1

\* C5: the symbols of the cached watchlist quotes are a duplicate-free
\* subsequence of the configured watchlist, in configured order.
C5_OrderedSubsequence ==
    LET syms == SymbolsOf(ticker)
    IN  /\ \A k \in 1..Len(syms) : syms[k] \in Range(Watchlist)
        /\ \A j, k \in 1..Len(syms) :
             j < k => WatchPos(syms[j]) < WatchPos(syms[k])

\* C5 witness: a committed snapshot holds both symbols, after one that held
\* the second symbol alone was pushed to the stream.
C5_Witness ==
    /\ Len(ticker) = 2
    /\ st.event # Absent
    /\ SymbolsOf(st.event.stocks) = <<"TSLA">>

\* C7: every (quotes, timestamp) pair returned by /api/live or pushed by the
\* ticker stream is the pair one commit of the ticker thread wrote (or the
\* pair the cache was constructed with), and every chart entry returned by
\* /api/livechart or pushed by a chart stream is the entry one commit stored
\* under that symbol.
C7_NoTornRead ==
    /\ lh.resp # Absent =>
         <<lh.resp.stocks, lh.resp.timestamp>> \in tickerCommits \cup {InitialSnapshot}
    /\ st.event # Absent =>
         <<st.event.stocks, st.event.timestamp>> \in tickerCommits
    /\ (hc.resp # Absent /\ hc.resp.status = 200) =>
         \E c \in chartCommits : c[1] = hc.symbol /\ ChartResponse(c[2]) = hc.resp
    /\ sc.event # Absent =>
         \E c \in chartCommits : c[1] = sc.symbol /\ ChartPayload(c[2]) = sc.event

\* C7 witness: /api/live waits for the lock while the ticker thread is
\* between its two writes, replacing a snapshot the stream has pushed.
C7_Witness ==
    /\ tr.pc = "write_ts"
    /\ lh.pc = "lock"
    /\ st.event # Absent
    /\ ticker # st.event.stocks

\* C10: when a cycle of the ticker thread has committed, every watchlist
\* symbol was fetched in that cycle, and the committed snapshot holds exactly
\* the symbols whose fetch gave at least one row without an error.
C10_PartialFailureCommits ==
    tr.pc \in {"write_ts", "sleep"} =>
       /\ AllFetched
       /\ SymbolsOf(ticker) = SelectSeq(Watchlist, LAMBDA s : s \in tr.ok)

\* C10 witness: the first symbol failed and the second was committed.
C10_Witness ==
    /\ tr.pc = "sleep"
    /\ tr.ok = {"TSLA"}
    /\ SymbolsOf(ticker) = <<"TSLA">>

\* a step of the chart thread itself (a clock tick only moves its timer)
CRStep == cr' # cr /\ ticks' = ticks
CRBusy == cr.pc \in {"fetch1", "fetch2", "lock", "write"}

\* C3: a cycle of the chart thread works on the symbol that was the focus
\* when the cycle began, so with no focus change since then it fetches the
\* current focus and writes no other symbol's entry; a cycle that begins
\* with no focus makes no fetch and no write.
C3_CycleFollowsFocus ==
    [][/\ CRBusy' =>
            /\ cr'.sym \in ChartSymbols
            /\ cr'.seen = Len(focusLog') => cr'.sym = chart_symbol'
       /\ (CRStep /\ ~CRBusy) =>
            IF chart_symbol = None
            THEN ~CRBusy' /\ charts' = charts
            ELSE cr'.pc = "fetch1" /\ cr'.sym = chart_symbol
       /\ (CRStep /\ charts' # charts) =>
            \A s \in ChartSymbols \ {cr.sym} : charts'[s] = charts[s]]_vars

\* C3 witness: focus went to TSLA, then to MSFT, and a cycle that began
\* after that is fetching MSFT.
C3_Witness ==
    /\ focusLog = <<"TSLA", "MSFT">>
    /\ cr.pc = "fetch1"
    /\ cr.seen = 2
    /\ cr.sym = "MSFT"
    /\ charts["TSLA"] # Absent

\* C4: while the focus is on another symbol, and is not moved back, a cached
\* chart entry stays in the table and is not modified.
C4_UnfocusedEntryUnchanged ==
    [][\A s \in ChartSymbols :
         (charts[s] # Absent /\ chart_symbol # s /\ chart_symbol' # s)
            => charts'[s] = charts[s]]_vars

\* C6: the timestamp of the watchlist snapshot and of each chart entry never
\* goes back: no step replaces it with an earlier one.
C6_TimestampsNeverGoBack ==
    [][/\ TsLeq(timestamp, timestamp')
       /\ \A s \in ChartSymbols :
            charts[s] # Absent =>
               /\ charts'[s] # Absent
               /\ TsLeq(charts[s].timestamp, charts'[s].timestamp)]_vars

\* C8: no two tasks hold, at the same time, a value fetched for the same
\* symbol's chart entry and not yet committed.
C8_SingleChartWriter ==
    ~ /\ cr.pc \in {"lock", "write"}
      /\ hc.pc \in {"lock2", "write"}
      /\ cr.sym = hc.symbol

\* C9: the chart thread changes the chart table only in the write step of a
\* cycle whose first request did not fail and which got a non-empty frame;
\* a cycle whose request raised, or came back empty twice, changes nothing;
\* the fallback request is made only after an empty first result.
C9_FailedCycleIsNoOp ==
    [][/\ cr'.pc = "fetch2" => cr'.first = Frame(<<>>)
       /\ cr'.pc \in {"lock", "write"} =>
            /\ ~cr'.first.err
            /\ cr'.h # <<>>
            /\ cr'.first.rows # <<>> => cr'.h = cr'.first.rows
       /\ (CRStep /\ charts' # charts) => cr.pc = "write"
       /\ (CRStep /\ cr.pc \in {"fetch1", "fetch2"} /\ cr'.pc = "sleep") =>
            charts' = charts]_vars

\* C9 witness: the first request of a cycle came back empty, the fallback gave
\* no data either, and the entry cached
\* before it is still there.
C9_Witness ==
    /\ cr.pc = "sleep"
    /\ cr.first = Frame(<<>>)
    /\ cr.h = <<>>
    /\ cr.sym \in ChartSymbols
    /\ charts[cr.sym] # Absent

\* the latest cycle of the ticker thread is over and no provider call of it
\* gave a row: the provider was out for the whole cycle
TickerOutage == tr.pc = "sleep" /\ AllFetched /\ tr.ok = {}
EverCachedQuotes == \E c \in tickerCommits : c[1] # <<>>

\* C11: once a non-empty watchlist snapshot was cached, an /api/live read
\* made after a cycle in which every provider call failed still returns a
\* non-empty quote list; and a /api/livechart read that finds the symbol's
\* entry in the cache answers with that entry, whatever the provider does.
C11_StaleReadSucceeds ==
    [][/\ (lh.pc = "read" /\ lh'.pc = "idle" /\ TickerOutage /\ EverCachedQuotes)
            => lh'.resp.stocks # <<>>
       /\ (hc.pc = "read" /\ hc'.pc # "read" /\ charts[hc.symbol] # Absent)
            => hc'.resp = ChartResponse(charts[hc.symbol])]_vars

\* C12: a task that is at a provider call or asleep does not hold the cache
\* lock: the ticker thread while it fetches or sleeps, the chart thread
\* while it fetches or sleeps, the /api/livechart handler while it fetches,
\* and a stream loop while it sleeps.
C12_NoLockAcrossIO ==
    /\ tr.pc \in {"fetch", "sleep"} => lock # "tr"
    /\ cr.pc \in {"fetch1", "fetch2", "sleep"} => lock # "cr"
    /\ hc.pc \in {"fetch1", "fetch2"} => lock # "hc"
    /\ st.pc = "sleep" => lock # "st"
    /\ sc.pc = "sleep" => lock # "sc"

\* C12 witness: the handler is at its provider call while the chart thread
\* holds the lock and writes.
C12_Witness ==
    /\ hc.pc \in {"fetch1", "fetch2"}
    /\ lock = "cr"
    /\ cr.pc = "write"

\* a step in which a chart request with a symbol arrives, or a chart stream
\* is opened
ChartRequestArrives == hc.pc = "idle" /\ hc'.pc = "lock1"
ChartStreamOpens == sc.pc = "closed" /\ sc'.pc = "lock"

\* C13: a chart request for S and the opening of a chart stream for S set
\* the focus to S; every other step (of a refresher thread, of a stream
\* poll, of the rest of a request, of the clock) leaves the focus as it is;
\* so the focus is the symbol of the latest such operation, and is unset
\* before the first.
C13_FocusLastWriterWins ==
    [][/\ ChartRequestArrives => chart_symbol' = hc'.symbol
       /\ ChartStreamOpens => chart_symbol' = sc'.symbol
       /\ ~(ChartRequestArrives \/ ChartStreamOpens)
            => chart_symbol' = chart_symbol
       /\ chart_symbol' = IF focusLog' = <<>> THEN None
                          ELSE focusLog'[Len(focusLog')]]_vars

\* C13 witness: a request for TSLA, then one for MSFT, and a cycle of the
\* chart thread for TSLA that committed after the focus had moved on: the
\* focus is MSFT.
C13_Witness ==
    /\ focusLog = <<"TSLA", "MSFT">>
    /\ chart_symbol = "MSFT"
    /\ cr.sym = "TSLA"
    /\ cr.pc = "sleep"
    /\ cr.seen = 1
    /\ charts["TSLA"] # Absent

B(p) == IF p THEN 1 ELSE 0

\* /api/strategy has answered a request with an analysis
StrategyEvaluated == sg.pc = "idle" /\ sg.resp # Absent /\ sg.resp.status = 200

\* the verdict is BUY iff the bullish votes exceed the bearish, SELL iff the
\* bearish exceed the bullish, HOLD iff they are equal
VerdictByMajority ==
    /\ sg.resp.overall.verdict = "BUY" <=> sg.buy_signals > sg.sell_signals
    /\ sg.resp.overall.verdict = "SELL" <=> sg.sell_signals > sg.buy_signals
    /\ sg.resp.overall.verdict = "HOLD" <=> sg.buy_signals = sg.sell_signals

\* C14 as stated: on every evaluation the MACD and the MA cross each cast a
\* vote, the RSI and the Bollinger bands cast one only at an extreme (RSI
\* below 30 or above 70, price at or beyond a band), and the verdict follows
\* the majority.
C14_VotesAsStated ==
    StrategyEvaluated =>
       LET i == sg.hist.ind
       IN  /\ sg.buy_signals + sg.sell_signals =
                 2 + B(i.rsi < 3000 \/ i.rsi > 7000)
                   + B(i.bb.price <= i.bb.lower \/ i.bb.price >= i.bb.upper)
           /\ VerdictByMajority

\* C14 amended: the MACD votes on every evaluation (bullish when above its
\* signal line, bearish otherwise); the MA cross votes only when the series
\* has the 200 rows an MA200 needs (bullish when MA50 is above MA200,
\* bearish otherwise); the RSI votes bullish below 30 and bearish above 70;
\* the Bollinger bands vote bullish when the price is at or below the lower
\* band, bearish when it is at or above the upper band and not at the lower
\* one; the verdict follows the majority.
C14_VotesWhenAvailable ==
    StrategyEvaluated =>
       LET i == sg.hist.ind
           hasMa == sg.hist.n >= 200
           bull == B(i.mc.macd > i.mc.signal)
                     + B(hasMa /\ i.ma.ma50 > i.ma.ma200)
                     + B(i.rsi < 3000)
                     + B(i.bb.price <= i.bb.lower)
           bear == B(~(i.mc.macd > i.mc.signal))
                     + B(hasMa /\ ~(i.ma.ma50 > i.ma.ma200))
                     + B(i.rsi > 7000)
                     + B(i.bb.price >= i.bb.upper /\ ~(i.bb.price <= i.bb.lower))
       IN  /\ sg.buy_signals = bull
           /\ sg.sell_signals = bear
           /\ VerdictByMajority

\* C14 witness: on 199 rows the MACD voted bullish, the bands bearish, the
\* RSI was in the neutral range and there was no MA cross: a tie, HOLD.
C14_Witness ==
    /\ StrategyEvaluated
    /\ sg.hist.n = 199
    /\ sg.hist.ind.rsi = 3000
    /\ sg.buy_signals = 1
    /\ sg.sell_signals = 1
    /\ sg.resp.overall.verdict = "HOLD"

\* an analysis request got a series with at least one row from the provider
StrategyGotSeries == sg.pc = "idle" /\ sg.hist # Absent /\ ~sg.hist.err /\ sg.hist.n >= 1
StockGotSeries == sd.pc = "idle" /\ sd.hist # Absent /\ ~sd.hist.err /\ sd.hist.n >= 1

\* C15: an analysis request whose series is shorter than the window of an
\* indicator succeeds and reports that indicator as unavailable: /api/stock
\* leaves out the chart of each indicator whose window the series does not
\* fill, /api/strategy reports the MA cross as not available on fewer than
\* 200 rows, and neither answers a series of at least one row with an error.
C15_ShortSeriesIsNotAnError ==
    /\ StockGotSeries =>
          /\ sd.resp.status = 200
          /\ "rsi" \in sd.resp.charts <=> sd.hist.n >= 14
          /\ "bollinger" \in sd.resp.charts <=> sd.hist.n >= 20
          /\ "macd" \in sd.resp.charts <=> sd.hist.n >= 26
    /\ StrategyGotSeries =>
          /\ sg.resp.status = 200
          /\ sg.hist.n < 200 => sg.resp.maCrossover = "not enough data"

\* the positions of the cached quotes of symbol sym
QuotesOf(sym) == {j \in 1..Len(ticker) : ticker[j].symbol = sym}

\* C16: when a cycle of the ticker thread has written its results, the
\* cache holds, for each watchlist symbol, what the closes fetched for it in
\* that cycle (tr.closes, prices carried to two decimals) determine: with
\* two or more closes one quote with price = cur, change = round(cur - prev,
\* 2) and changePct = round(change / prev * 100, 2) for the last two closes
\* cur and prev; with one close one quote with that price, change 0 and
\* changePct 0; with no close no quote.
C16_QuotesMatchReference ==
    tr.pc \in {"write_ts", "sleep"} =>
       /\ Len(tr.closes) = Len(Watchlist)
       /\ \A k \in 1..Len(Watchlist) :
            LET h == tr.closes[k]
                n == Len(h)
                qs == QuotesOf(Watchlist[k])
            IN  CASE n = 0 -> qs = {}
                  [] n = 1 ->
                       /\ Cardinality(qs) = 1
                       /\ \A j \in qs :
                            /\ ticker[j].price = Round2(h[1])
                            /\ ticker[j].change = 0
                            /\ ticker[j].changePct = 0
                  [] OTHER ->
                       /\ Cardinality(qs) = 1
                       /\ \A j \in qs :
                            LET cur == Round2(h[n])
                                prev == Round2(h[n - 1])
                            IN  /\ ticker[j].price = cur
                                /\ ticker[j].change = Round2(10 * (cur - prev))
                                /\ ticker[j].changePct =
                                     RoundDiv(ticker[j].change * 10000, prev)

\* C16 witness: a cycle fetched two closes (10.000, 10.255) for the first
\* symbol and one close for the second, and committed a change of 0.26 and
\* 2.6 percent for the first.
C16_Witness ==
    /\ tr.pc = "sleep"
    /\ tr.closes = << <<10000, 10255>>, <<10125>> >>
    /\ Len(ticker) = 2
    /\ ticker[1].change = 26
    /\ ticker[1].changePct = 260
    /\ ticker[2].price = 1012

\* C17: the cycles of the ticker thread start TickerSleep apart, counted
\* from the start of the cycle before, whatever time the provider calls of
\* that cycle took (less than TickerSleep).  For the first cycle, which
\* starts with the thread at tick 0: the sleep that follows its commit ends
\* at tick TickerSleep, when the second cycle is due.
C17_FixedIntervalFromStart ==
    [][(/\ tr.pc = "write_ts" /\ tr'.pc = "sleep"
        /\ tickerCommits = {}
        /\ ticks < TickerSleep)
         => ticks + tr'.timer = TickerSleep]_vars

\* a cycle in which a provider call failed is over and its sleep ends
\* within the span of the behaviour
TickerFailedAsleep ==
    /\ tr.pc = "sleep"
    /\ tr.ok # Range(Watchlist)
    /\ ticks + tr.timer <= MaxTicks
ChartFailedAsleep ==
    /\ cr.pc = "sleep"
    /\ cr.first # Absent
    /\ cr.h = <<>>
    /\ ticks + cr.timer <= MaxTicks

\* C18: a refresher thread that ran into provider failures starts another
\* cycle when its sleep is over; a read of /api/live that has begun ends
\* with the cached snapshot, not with an error; a stream poll that has begun
\* ends and the connection sleeps until the next poll.
C18_FailuresAreAbsorbed ==
    /\ TickerFailedAsleep ~> (tr.pc = "fetch" /\ tr.fetched = {})
    /\ ChartFailedAsleep ~> (cr.pc = "fetch1" /\ cr.first = Absent)
    /\ (lh.pc # "idle") ~> (lh.pc = "idle" /\ lh.resp # Absent
                              /\ lh.resp.timestamp = timestamp)
    /\ (st.pc \in {"lock", "read", "check"}) ~> (st.pc = "sleep")
    /\ (sc.pc \in {"lock", "read", "check"}) ~> (sc.pc = "sleep")

\* C18 witness: every provider call of the first cycle failed, /api/live
\* answered with the snapshot of that cycle, and the ticker thread is in
\* its second cycle.
C18_Witness ==
    /\ tr.pc = "fetch"
    /\ tr.i = 2
    /\ ticker = <<>>
    /\ lh.pc = "idle"
    /\ lh.resp = [stocks |-> <<>>, timestamp |-> timestamp]
    /\ timestamp # NoTs

\* a step of a chart stream connection
SCStep == sc' # sc /\ ticks' = ticks

\* C19: an entry, once in the chart table, stays in it; a request that
\* reads the table and finds the symbol's entry answers with it at once and
\* goes neither to a provider call nor to a write; the handler begins a
\* provider call only from a read that found no entry; a chart stream
\* connection is never at a provider call and never changes the table.
C19_FetchOnlyOnMiss ==
    [][/\ \A s \in ChartSymbols : charts[s] # Absent => charts'[s] # Absent
       /\ (hc.pc = "read" /\ hc'.pc # "read" /\ charts[hc.symbol] # Absent)
            => /\ hc'.pc = "idle"
               /\ hc'.resp = ChartResponse(charts[hc.symbol])
               /\ charts' = charts
       /\ (hc.pc # "fetch1" /\ hc'.pc = "fetch1")
            => (hc.pc = "read" /\ charts[hc.symbol] = Absent)
       /\ (hc.pc # "fetch2" /\ hc'.pc = "fetch2") => hc.pc = "fetch1"
       /\ (hc.pc # "lock2" /\ hc'.pc = "lock2") => hc.pc \in {"fetch1", "fetch2"}
       /\ SCStep => (charts' = charts
                       /\ sc'.pc \in {"lock", "read", "check", "sleep"})]_vars

\* C19 witness: the first request for TSLA fetched and stored the entry, the
\* chart thread has not run, and a second request for TSLA was answered
\* from the table.
C19_Witness ==
    /\ focusLog = <<"TSLA", "TSLA">>
    /\ cr.pc = "start"
    /\ hc.pc = "idle"
    /\ charts["TSLA"] # Absent
    /\ hc.resp = ChartResponse(charts["TSLA"])
    /\ Cardinality(chartCommits) = 1

\* a step of the /api/livechart handler
HCStep == hc' # hc

\* C20: a request for an uncached symbol whose provider call raises, or
\* comes back empty at both granularities, is answered 500 or 404; it has
\* set the focus to its symbol when it arrived, and no step of it changes
\* the chart table, the watchlist snapshot or (after the arrival) the focus.
C20_FailedBootstrapTouchesOnlyFocus ==
    [][/\ (hc.pc \in {"fetch1", "fetch2"} /\ hc'.pc = "idle")
            => /\ hc'.resp.status \in {404, 500}
               /\ charts' = charts
       /\ (HCStep /\ hc.pc # "write")
            => (charts' = charts /\ ticker' = ticker /\ timestamp' = timestamp)
       /\ (HCStep /\ ~ChartRequestArrives) => chart_symbol' = chart_symbol
       /\ (HCStep /\ hc'.pc = "write") => hc'.cached # Absent]_vars

\* C20 witness: a request for a symbol came back empty twice and was
\* answered 404; the symbol is the focus and has no entry.
C20_Witness ==
    /\ hc.pc = "idle"
    /\ hc.resp = [status |-> 404]
    /\ focusLog = <<hc.symbol>>
    /\ chart_symbol = hc.symbol
    /\ charts[hc.symbol] = Absent
    /\ ticker = <<>>

\* the tasks that are inside a with live_cache["lock"] block
InLockedRegion ==
    (IF tr.pc \in {"write_ticker", "write_ts"} THEN {"tr"} ELSE {})
      \cup (IF st.pc = "read" THEN {"st"} ELSE {})
      \cup (IF lh.pc = "read" THEN {"lh"} ELSE {})
      \cup (IF cr.pc = "write" THEN {"cr"} ELSE {})
      \cup (IF hc.pc \in {"read", "write"} THEN {"hc"} ELSE {})
      \cup (IF sc.pc = "read" THEN {"sc"} ELSE {})

\* the tasks that are at a with statement, waiting to enter
WaitingForLock ==
    (IF tr.pc = "lock" THEN {"tr"} ELSE {})
      \cup (IF st.pc = "lock" THEN {"st"} ELSE {})
      \cup (IF lh.pc = "lock" THEN {"lh"} ELSE {})
      \cup (IF cr.pc = "lock" THEN {"cr"} ELSE {})
      \cup (IF hc.pc \in {"lock1", "lock2"} THEN {"hc"} ELSE {})
      \cup (IF sc.pc = "lock" THEN {"sc"} ELSE {})

\* C21: at most one task is inside a locked region, and it is the one the
\* lock records as its holder; a task waiting to enter does not hold the
\* lock; the holder can always take its next step, and leaves the region
\* after at most two steps of its own (the lock is free again after the
\* ticker thread's second write and after any other holder's one step); and
\* every task waiting for the lock gets it.
C21_MutualExclusionNoDeadlock ==
    /\ [](/\ InLockedRegion = (IF lock = Free THEN {} ELSE {lock})
          /\ lock \notin WaitingForLock
          /\ lock = "tr" => (ENABLED TRWriteTicker \/ ENABLED TRWriteTs)
          /\ lock = "st" => ENABLED STRead
          /\ lock = "lh" => ENABLED LHRespond
          /\ lock = "cr" => ENABLED CRWrite
          /\ lock = "hc" => (ENABLED HCRead \/ ENABLED HCWrite)
          /\ lock = "sc" => ENABLED SCRead)
    /\ [][/\ (lock = "tr" /\ tr' # tr /\ tr.pc = "write_ts") => lock' = Free
          /\ (lock = "st" /\ st' # st) => lock' = Free
          /\ (lock = "lh" /\ lh' # lh) => lock' = Free
          /\ (lock = "cr" /\ cr' # cr) => lock' = Free
          /\ (lock = "hc" /\ hc' # hc) => lock' = Free
          /\ (lock = "sc" /\ sc' # sc) => lock' = Free]_vars
    /\ (tr.pc = "lock") ~> (lock = "tr")
    /\ (st.pc = "lock") ~> (lock = "st")
    /\ (lh.pc = "lock") ~> (lock = "lh")
    /\ (cr.pc = "lock") ~> (lock = "cr")
    /\ (hc.pc \in {"lock1", "lock2"}) ~> (lock = "hc")
    /\ (sc.pc = "lock") ~> (lock = "sc")

\* C21 witness: the ticker thread is between its two writes while the
\* /api/live handler waits for the lock.
C21_Witness ==
    /\ lock = "tr"
    /\ tr.pc = "write_ts"
    /\ "lh" \in WaitingForLock

\* C22: a connection's poll that read the non-empty value the cache still
\* holds leaves that value as the connection's last pushed event, so a
\* connection whose cache stops changing there ends on the committed value
\* (every later poll reads the same value and does the same).
C22_StreamEndsOnCommitted ==
    [][/\ (/\ st.pc = "check" /\ st'.pc = "sleep"
           /\ st.data # <<>>
           /\ st.data = ticker /\ st.ts = timestamp)
          => st'.event = [stocks |-> ticker, timestamp |-> timestamp]
       /\ (/\ sc.pc = "check" /\ sc'.pc = "sleep"
           /\ sc.cached # Absent
           /\ sc.cached = charts[sc.symbol])
          => sc'.event = ChartPayload(charts[sc.symbol])]_vars

====
